---- MODULE Spec2Model ----
(***************************************************************************)
(* Model of pitch-ai/pitch/main.py: the /analyze_full_session handler, the *)
(* PDF extractor and the CSV recorder.                                     *)
(*                                                                         *)
(* A session is one call of analyze_full_session.  The ASGI application    *)
(* object `app` is served by NumWorkers worker processes that share the    *)
(* working directory.  A worker's event loop runs a handler from line 77   *)
(* to line 190 without suspension (the handler's only await is line 76),   *)
(* so at most NumWorkers sessions are past line 76 at a time, and those    *)
(* interleave at the granularity of their file-system calls.               *)
(*                                                                         *)
(* Texts are sequences of one-character strings.                           *)
(***************************************************************************)
EXTENDS Integers, Sequences, FiniteSets, TLC

\* ------------------------------------------------------------------ bounds
NumSessions == 2
NumWorkers == 2
MaxClock == 1

Sessions == 1..NumSessions

\* ------------------------------------------------------- program constants
MaxDeckChars == 12000
PreviewLen == 50
SecondsPerDay == 86400

RubricKeys == {"problem", "market", "solution", "biz_model", "traction", "impact"}
TopKeys == {"pitch_scores", "qa_scores", "audit_flags", "feedback"}

Sentinel ==
  <<"E","r","r","o","r"," ","r","e","a","d","i","n","g"," ","P","D","F"," ","f","i","l","e",".">>

Ellipsis == <<".", ".", ".">>

HeaderFields ==
  <<"Timestamp", "Pitch_Problem", "Pitch_Market", "Pitch_Solution",
    "Pitch_BizModel", "Pitch_Traction", "Pitch_Impact", "Deck_Preview">>

\* ------------------------------------------------------------ text helpers
Min(a, b) == IF a < b THEN a ELSE b

\* s[:n]
Take(s, n) == SubSeq(s, 1, Min(n, Len(s)))

\* s.replace('\n', ' ')
ReplaceNewlines(s) == [i \in 1..Len(s) |-> IF s[i] = "\n" THEN " " ELSE s[i]]

Rep(c, n) == [i \in 1..n |-> c]

\* ------------------------------------------------------------------ inputs
\* Uploaded documents: one PdfReader cannot parse, one of two pages whose
\* text is longer than the preview and has a newline inside the preview.
CorruptDoc == [parses |-> FALSE, pages |-> <<>>]
GoodDoc ==
  [parses |-> TRUE,
   pages |-> << <<"P","r","o","b","l","e","m",":"," ","X">>, Rep("a", 45) >>]
Docs == {CorruptDoc, GoodDoc}

\* JSON values the evaluation may put under pitch_scores / qa_scores.
NoMap == [k \in {} |-> 0]
FullScores ==
  [t |-> "object",
   m |-> [k \in RubricKeys |->
            CASE k = "problem" -> 5 [] k = "market" -> 4 [] k = "solution" -> 5
              [] k = "biz_model" -> 3 [] k = "traction" -> 2 [] OTHER -> 4]]
PartialScores ==
  [t |-> "object", m |-> [k \in RubricKeys \ {"market"} |-> 6]]
ArrayScores == [t |-> "array", m |-> NoMap]

\* Bodies of the chat completion: text that is not JSON, or a JSON object
\* with some of the top-level keys.
Body(valid, keys, ps, qs) ==
  [valid |-> valid, keys |-> keys, pitch_scores |-> ps, qa_scores |-> qs]
NotJson == Body(FALSE, {}, ArrayScores, ArrayScores)
Lacking(k) == Body(TRUE, TopKeys \ {k}, FullScores, FullScores)
Bodies ==
  {NotJson}
    \cup {Lacking(k) : k \in TopKeys}
    \cup {Body(TRUE, TopKeys, ps, qs) :
            ps \in {FullScores, PartialScores, ArrayScores},
            qs \in {FullScores, PartialScores}}

\* The inputs of the sessions that run side by side: a document that does
\* not parse, and an evaluation the recorder can and one it cannot write.
RaceDocs == {CorruptDoc}
RaceBodies ==
  {Body(TRUE, TopKeys, FullScores, FullScores),
   Body(TRUE, TopKeys, ArrayScores, FullScores)}

\* Audio and transcripts: a transcript is identified by the audio it was
\* made from (who uploaded it, and as which recording).
NoAudio == [owner |-> 0, kind |-> "none"]
Audio(s, kind) == [owner |-> s, kind |-> kind]

\* ---------------------------------------------------------- pure functions
RECURSIVE JoinPages(_, _)
\* lines 34-36: text = ""; for page in reader.pages: text += page + "\n"
JoinPages(pages, i) ==
  IF i > Len(pages) THEN <<>> ELSE pages[i] \o <<"\n">> \o JoinPages(pages, i + 1)

\* lines 31-40
extract_text_from_pdf(doc) ==
  IF doc.parses THEN Take(JoinPages(doc.pages, 1), MaxDeckChars) ELSE Sentinel

\* dict.get(k, default)
Get(d, k, default) == IF k \in DOMAIN d THEN d[k] ELSE default

\* Preview without the replacement of newlines.
PreviewRaw(text) == Take(text, PreviewLen) \o Ellipsis

\* line 60: data['deck_text'][:50].replace('\n', ' ') + "..."
Preview(text) == ReplaceNewlines(Take(text, PreviewLen)) \o Ellipsis

\* lines 52-61: the list handed to writer.writerow
RowFields(data) ==
  <<data.timestamp,
    Get(data.pitch_scores.m, "problem", 0),
    Get(data.pitch_scores.m, "market", 0),
    Get(data.pitch_scores.m, "solution", 0),
    Get(data.pitch_scores.m, "biz_model", 0),
    Get(data.pitch_scores.m, "traction", 0),
    Get(data.pitch_scores.m, "impact", 0),
    Preview(data.deck_text)>>

HeaderEntry(s) == [kind |-> "header", by |-> s, fields |-> HeaderFields]
RowEntry(s, data) == [kind |-> "row", by |-> s, fields |-> RowFields(data)]

\* Appended with the row in the else branch of `if not file_exists`.
AppendedElse(fe, s, data) ==
  IF ~fe THEN <<HeaderEntry(s)>>
  ELSE IF data.pitch_scores.t = "object" THEN <<RowEntry(s, data)>> ELSE <<>>

\* lines 46-61: what the with-block has written when it closes the file.
\* A pitch_scores that is no JSON object has no .get: AttributeError is
\* raised while the row is built, after the header went to the buffer.
Appended(fe, s, data) ==
  (IF fe THEN <<>> ELSE <<HeaderEntry(s)>>)
    \o (IF data.pitch_scores.t = "object" THEN <<RowEntry(s, data)>> ELSE <<>>)

\* lines 70-71: f"temp_pitch_{datetime.now().strftime('%H%M%S')}.wav"
TempName(prefix, t) == <<prefix, t % SecondsPerDay>>

\* The temporary files on local storage: a set of [name, audio], one per name.
\* os.path.exists(n)
Exists(fs, n) == \E f \in fs : f.name = n
\* what open(n, "rb") reads
Content(fs, n) == (CHOOSE f \in fs : f.name = n).audio
\* open(n, "wb") and shutil.copyfileobj: creates n or replaces what it held
Write(fs, n, a) == {f \in fs : f.name # n} \cup {[name |-> n, audio |-> a]}
\* os.remove(n)
Remove(fs, n) == {f \in fs : f.name # n}

NoError == <<>>

FirstMissing(keys) ==
  CASE "pitch_scores" \notin keys -> "pitch_scores"
    [] "qa_scores" \notin keys -> "qa_scores"
    [] "audit_flags" \notin keys -> "audit_flags"
    [] OTHER -> "feedback"

\* AssembleError with analysis.get(...) in place of the subscripts.
AssembleErrorLenient(b) == IF ~b.valid THEN <<"JSONDecodeError">> ELSE NoError

\* lines 169-178: json.loads, then the four subscripts analysis[...]
AssembleError(b) ==
  IF ~b.valid THEN <<"JSONDecodeError">>
  ELSE IF ~(TopKeys \subseteq b.keys) THEN <<"KeyError", FirstMissing(b.keys)>>
  ELSE NoError

\* lines 171-180
Assemble(deck, pitch, qa, b, t) ==
  [deck_text |-> deck, pitch_text |-> pitch, qa_text |-> qa,
   pitch_scores |-> b.pitch_scores, qa_scores |-> b.qa_scores,
   audit_flags |-> "audit_flags", feedback |-> "feedback", timestamp |-> t]

NoResult ==
  [deck_text |-> <<>>, pitch_text |-> NoAudio, qa_text |-> NoAudio,
   pitch_scores |-> ArrayScores, qa_scores |-> ArrayScores,
   audit_flags |-> "none", feedback |-> "none", timestamp |-> 0]

\* What the client receives: the returned dict, or the HTTPException of
\* line 187.
Response(p, res) ==
  IF p.kind = "return"
  THEN [status |-> 200, detail |-> NoError, body |-> res]
  ELSE [status |-> 500, detail |-> p.detail, body |-> NoResult]

\* An exception that leaves the handler (raised in the finally block) is
\* answered by the server with a bare 500.
Unhandled ==
  [status |-> 500, detail |-> <<"Internal Server Error">>, body |-> NoResult]

NoResponse == [status |-> 0, detail |-> NoError, body |-> NoResult]

\* ------------------------------------------------------------------- state
VARIABLES
  now,          \* wall clock, in seconds
  pc,           \* each session's position in the handler
  local,        \* each handler's local variables
  files,        \* temporary audio files on local storage
  log_exists,   \* ward_infinity_scores.csv exists
  log,          \* its lines, in file order
  hist,         \* what has happened in each session (history)
  response      \* what each session's client received

vars == <<now, pc, local, files, log_exists, log, hist, response>>

\* The locals of analyze_full_session and save_to_csv; at_pitch and at_qa
\* are the seconds read by the two datetime.now() calls of lines 70 and 71,
\* `pending` is the return value or exception the handler is leaving with.
NoLocal ==
  [at_pitch |-> 0,
   at_qa |-> 0,
   temp_pitch |-> TempName("temp_pitch", 0),
   temp_qa |-> TempName("temp_qa", 0),
   deck_text |-> <<>>,
   pitch_text |-> NoAudio,
   qa_text |-> NoAudio,
   result |-> NoResult,
   file_exists |-> FALSE,
   pending |-> [kind |-> "none", detail |-> NoError]]

\* How each step ended, the external calls made, the completion's body and
\* the first exception raised in the try block, with the number of calls
\* and of log lines of the session at that moment.
NoHist ==
  [parse |-> "none", pitch |-> "none", qa |-> "none", eval |-> "none",
   record |-> "none", calls |-> <<>>, body |-> NotJson,
   raised |-> "none", detail |-> NoError, calls_then |-> 0, lines_then |-> 0]

\* Sessions whose handler is executing (between lines 70 and 71, or past
\* the await of line 76): each holds a worker's event loop.
Running == {t \in Sessions : pc[t] \notin {"idle", "read", "done"}}

Written(s) == Cardinality({i \in 1..Len(log) : log[i].by = s})

Init ==
  /\ now = 0
  /\ pc = [s \in Sessions |-> "idle"]
  /\ local = [s \in Sessions |-> NoLocal]
  /\ files = {}
  /\ log_exists = FALSE
  /\ log = <<>>
  /\ hist = [s \in Sessions |-> NoHist]
  /\ response = [s \in Sessions |-> NoResponse]

\* Raise with the failed step tried again instead of giving up.
RaiseRetry(s, step, detail, h, lines) ==
  /\ hist' = [hist EXCEPT ![s] = h]
  /\ UNCHANGED <<local, pc>>

\* lines 185-187, then on to the finally block: the exception e raised at
\* `step` becomes HTTPException(500, str(e)).
Raise(s, step, detail, h, lines) ==
  /\ local' = [local EXCEPT ![s].pending = [kind |-> "http", detail |-> detail]]
  /\ hist' = [hist EXCEPT ![s] =
                [h EXCEPT !.raised = step, !.detail = detail,
                          !.calls_then = Len(h.calls), !.lines_then = lines]]
  /\ pc' = [pc EXCEPT ![s] = "fin_pitch_exists"]

\* The handler is over: the client is answered and the locals are gone.
Finish(s, r) ==
  /\ response' = [response EXCEPT ![s] = r]
  /\ local' = [local EXCEPT ![s] = NoLocal]
  /\ pc' = [pc EXCEPT ![s] = "done"]

\* ----------------------------------------------------------------- actions
\* The clock advances.
Tick ==
  /\ now < MaxClock
  /\ now' = now + 1
  /\ UNCHANGED <<pc, local, files, log_exists, log, hist, response>>

\* Start with a name that is unique to the request.
StartUnique(s, workers) ==
  /\ pc[s] = "idle"
  /\ \A t \in 1..(s - 1) : pc[t] # "idle"
  /\ Cardinality(Running) < workers
  /\ local' = [local EXCEPT ![s].at_pitch = now,
                            ![s].temp_pitch = <<"temp_pitch", SecondsPerDay + s>>]
  /\ pc' = [pc EXCEPT ![s] = "name_qa"]
  /\ UNCHANGED <<now, files, log_exists, log, hist, response>>

\* line 70, on a worker whose event loop is free; sessions are numbered in
\* the order in which their handlers start
Start(s, workers) ==
  /\ pc[s] = "idle"
  /\ \A t \in 1..(s - 1) : pc[t] # "idle"
  /\ Cardinality(Running) < workers
  /\ local' = [local EXCEPT ![s].at_pitch = now,
                            ![s].temp_pitch = TempName("temp_pitch", now)]
  /\ pc' = [pc EXCEPT ![s] = "name_qa"]
  /\ UNCHANGED <<now, files, log_exists, log, hist, response>>

\* line 71, up to the await of line 76
NameQa(s) ==
  /\ pc[s] = "name_qa"
  /\ local' = [local EXCEPT ![s].at_qa = now,
                            ![s].temp_qa = TempName("temp_qa", now)]
  /\ pc' = [pc EXCEPT ![s] = "read"]
  /\ UNCHANGED <<now, files, log_exists, log, hist, response>>

\* lines 76-77: the upload is read (which may fail) and handed to the
\* extractor (which does not), once a worker's event loop is free
ReadDeck(s, workers, docs) ==
  /\ pc[s] = "read"
  /\ Cardinality(Running) < workers
  /\ \/ Raise(s, "read", <<"read error">>, hist[s], Written(s))
     \/ \E doc \in docs :
          /\ local' = [local EXCEPT ![s].deck_text = extract_text_from_pdf(doc)]
          /\ hist' = [hist EXCEPT ![s].parse =
                        IF doc.parses THEN "ok" ELSE "failed"]
          /\ pc' = [pc EXCEPT ![s] = "write_pitch"]
  /\ UNCHANGED <<now, files, log_exists, log, response>>

\* lines 81-82
WritePitch(s) ==
  /\ pc[s] = "write_pitch"
  /\ files' = Write(files, local[s].temp_pitch, Audio(s, "pitch"))
  /\ pc' = [pc EXCEPT ![s] = "transcribe_pitch"]
  /\ UNCHANGED <<now, local, log_exists, log, hist, response>>

\* lines 83-85: the file is reopened by name and whatever it holds is sent
TranscribePitch(s) ==
  /\ pc[s] = "transcribe_pitch"
  /\ IF ~Exists(files, local[s].temp_pitch)
     THEN Raise(s, "pitch", <<"FileNotFoundError">>,
                [hist[s] EXCEPT !.pitch = "missing"], Written(s))
     ELSE LET h == [hist[s] EXCEPT !.calls = Append(@, "transcribe_pitch")]
          IN \/ /\ local' = [local EXCEPT ![s].pitch_text =
                               Content(files, local[s].temp_pitch)]
                /\ hist' = [hist EXCEPT ![s] = [h EXCEPT !.pitch = "ok"]]
                /\ pc' = [pc EXCEPT ![s] = "write_qa"]
             \/ Raise(s, "pitch", <<"transcription error">>,
                      [h EXCEPT !.pitch = "raised"], Written(s))
  /\ UNCHANGED <<now, files, log_exists, log, response>>

\* lines 89-90
WriteQa(s) ==
  /\ pc[s] = "write_qa"
  /\ files' = Write(files, local[s].temp_qa, Audio(s, "qa"))
  /\ pc' = [pc EXCEPT ![s] = "transcribe_qa"]
  /\ UNCHANGED <<now, local, log_exists, log, hist, response>>

\* lines 91-93
TranscribeQa(s) ==
  /\ pc[s] = "transcribe_qa"
  /\ IF ~Exists(files, local[s].temp_qa)
     THEN Raise(s, "qa", <<"FileNotFoundError">>,
                [hist[s] EXCEPT !.qa = "missing"], Written(s))
     ELSE LET h == [hist[s] EXCEPT !.calls = Append(@, "transcribe_qa")]
          IN \/ /\ local' = [local EXCEPT ![s].qa_text =
                               Content(files, local[s].temp_qa)]
                /\ hist' = [hist EXCEPT ![s] = [h EXCEPT !.qa = "ok"]]
                /\ pc' = [pc EXCEPT ![s] = "evaluate"]
             \/ Raise(s, "qa", <<"transcription error">>,
                      [h EXCEPT !.qa = "raised"], Written(s))
  /\ UNCHANGED <<now, files, log_exists, log, response>>

\* lines 160-180: the chat completion, json.loads and the result dict
Evaluate(s, bodies) ==
  /\ pc[s] = "evaluate"
  /\ LET h == [hist[s] EXCEPT !.calls = Append(@, "chat")]
     IN \/ Raise(s, "eval", <<"chat error">>, [h EXCEPT !.eval = "raised"],
                 Written(s))
        \/ \E b \in bodies :
             IF AssembleError(b) # NoError
             THEN Raise(s, "eval", AssembleError(b),
                        [h EXCEPT !.eval = "rejected", !.body = b], Written(s))
             ELSE /\ local' = [local EXCEPT ![s].result =
                                 Assemble(local[s].deck_text,
                                          local[s].pitch_text,
                                          local[s].qa_text, b, now)]
                  /\ hist' = [hist EXCEPT ![s] =
                                [h EXCEPT !.eval = "ok", !.body = b]]
                  /\ pc' = [pc EXCEPT ![s] = "save_isfile"]
  /\ UNCHANGED <<now, files, log_exists, log, response>>

\* lines 43-44
SaveIsFile(s) ==
  /\ pc[s] = "save_isfile"
  /\ local' = [local EXCEPT ![s].file_exists = log_exists]
  /\ pc' = [pc EXCEPT ![s] = "save_open"]
  /\ UNCHANGED <<now, files, log_exists, log, hist, response>>

\* line 45: open(filename, 'a') creates the file, or fails
SaveOpen(s) ==
  /\ pc[s] = "save_open"
  /\ \/ /\ log_exists' = TRUE
        /\ pc' = [pc EXCEPT ![s] = "save_write"]
        /\ UNCHANGED <<local, hist>>
     \/ /\ Raise(s, "record", <<"OSError">>,
                 [hist[s] EXCEPT !.record = "failed"], Written(s))
        /\ UNCHANGED log_exists
  /\ UNCHANGED <<now, files, log, response>>

\* lines 46-61 and 183: the header if the file was not there at line 44,
\* then the row; the with-block closes the file, appending both at once
SaveWrite(s) ==
  /\ pc[s] = "save_write"
  /\ LET lines == Appended(local[s].file_exists, s, local[s].result)
     IN /\ log' = log \o lines
        /\ IF local[s].result.pitch_scores.t = "object"
           THEN /\ hist' = [hist EXCEPT ![s].record = "ok"]
                /\ local' = [local EXCEPT ![s].pending =
                               [kind |-> "return", detail |-> NoError]]
                /\ pc' = [pc EXCEPT ![s] = "fin_pitch_exists"]
           ELSE Raise(s, "record", <<"AttributeError">>,
                      [hist[s] EXCEPT !.record = "failed"],
                      Written(s) + Len(lines))
  /\ UNCHANGED <<now, files, log_exists, response>>

\* line 189: os.path.exists(temp_pitch)
FinPitchExists(s) ==
  /\ pc[s] = "fin_pitch_exists"
  /\ pc' = [pc EXCEPT ![s] =
              IF Exists(files, local[s].temp_pitch)
              THEN "fin_pitch_remove" ELSE "fin_qa_exists"]
  /\ UNCHANGED <<now, local, files, log_exists, log, hist, response>>

\* line 189: os.remove(temp_pitch); FileNotFoundError leaves the handler
FinPitchRemove(s) ==
  /\ pc[s] = "fin_pitch_remove"
  /\ IF Exists(files, local[s].temp_pitch)
     THEN /\ files' = Remove(files, local[s].temp_pitch)
          /\ pc' = [pc EXCEPT ![s] = "fin_qa_exists"]
          /\ UNCHANGED <<local, response>>
     ELSE /\ Finish(s, Unhandled)
          /\ UNCHANGED files
  /\ UNCHANGED <<now, log_exists, log, hist>>

\* line 190: os.path.exists(temp_qa); without the file the handler is over
FinQaExists(s) ==
  /\ pc[s] = "fin_qa_exists"
  /\ IF Exists(files, local[s].temp_qa)
     THEN /\ pc' = [pc EXCEPT ![s] = "fin_qa_remove"]
          /\ UNCHANGED <<local, response>>
     ELSE Finish(s, Response(local[s].pending, local[s].result))
  /\ UNCHANGED <<now, files, log_exists, log, hist>>

\* line 190: os.remove(temp_qa), and the handler is over
FinQaRemove(s) ==
  /\ pc[s] = "fin_qa_remove"
  /\ IF Exists(files, local[s].temp_qa)
     THEN /\ files' = Remove(files, local[s].temp_qa)
          /\ Finish(s, Response(local[s].pending, local[s].result))
     ELSE /\ Finish(s, Unhandled)
          /\ UNCHANGED files
  /\ UNCHANGED <<now, log_exists, log, hist>>

\* One step of session s, served by `workers` worker processes.
Handler(s, workers, docs, bodies) ==
  \/ Start(s, workers)
  \/ NameQa(s)
  \/ ReadDeck(s, workers, docs)
  \/ WritePitch(s)
  \/ TranscribePitch(s)
  \/ WriteQa(s)
  \/ TranscribeQa(s)
  \/ Evaluate(s, bodies)
  \/ SaveIsFile(s)
  \/ SaveOpen(s)
  \/ SaveWrite(s)
  \/ FinPitchExists(s)
  \/ FinPitchRemove(s)
  \/ FinQaExists(s)
  \/ FinQaRemove(s)

\* Overlapping requests: the application served by NumWorkers workers.
Next == Tick \/ \E s \in Sessions : Handler(s, NumWorkers, RaceDocs, RaceBodies)

Spec == Init /\ [][Next]_vars

\* The server as lines 192-194 start it: uvicorn.run(app) is one worker, so
\* handlers run one after another from line 77 on.
NextSeq == Tick \/ \E s \in Sessions : Handler(s, 1, RaceDocs, RaceBodies)

SpecSeq == Init /\ [][NextSeq]_vars

\* One session, over every document and every completion body.
NextOne == Tick \/ Handler(1, 1, Docs, Bodies)

SpecOne == Init /\ [][NextOne]_vars

\* ------------------------------------------------------------ properties
Done(s) == pc[s] = "done"

Rows == {i \in 1..Len(log) : log[i].kind = "row"}
Headers == {i \in 1..Len(log) : log[i].kind = "header"}
RowsBy(s) == {i \in Rows : log[i].by = s}

\* C1: once a session's handler has finished, no temporary audio file that
\* the session wrote is left on local storage.
CleanupAlways ==
  \A s \in Sessions : Done(s) => \A f \in files : f.audio.owner # s

\* C2: when no session is running, a log file that has lines has the header
\* exactly once, as its first line.
HeaderOnce ==
  ((\A s \in Sessions : pc[s] \in {"idle", "done"}) /\ Len(log) > 0)
    => (log[1].kind = "header" /\ Cardinality(Headers) = 1)

\* C3: a session answered with success has exactly one row in the log, a
\* session whose recorder failed is not answered with success, and the log
\* has as many rows as there are sessions whose recorder completed.
OneRowPerRecording ==
  /\ \A s \in Sessions :
       response[s].status = 200 => Cardinality(RowsBy(s)) = 1
  /\ \A s \in Sessions :
       hist[s].record = "failed" => response[s].status # 200
  /\ Cardinality(Rows) =
       Cardinality({s \in Sessions : hist[s].record = "ok"})

\* C3 witness: one session was answered with success, another finished
\* after its recorder failed, and the log has the one row.
RecordedAndFailed ==
  \E s, u \in Sessions :
    /\ response[s].status = 200
    /\ Done(u) /\ hist[u].record = "failed"
    /\ Cardinality(Rows) = 1

BadBody(b) == ~b.valid \/ \E k \in TopKeys : k \notin b.keys

\* C4: a session whose completion body is not JSON, or is JSON without one
\* of the four top-level keys, writes nothing to the log, never enters
\* save_to_csv, and is answered with status 500.
MalformedEvaluationRejected ==
  \A s \in Sessions :
    (hist[s].eval \in {"ok", "rejected"} /\ BadBody(hist[s].body))
      => /\ Written(s) = 0
         /\ hist[s].record = "none"
         /\ pc[s] \notin {"save_isfile", "save_open", "save_write"}
         /\ Done(s) => response[s].status = 500

\* C4 witness: a finished session whose completion was JSON without the
\* feedback key.
LackingKeyAnswered ==
  \E s \in Sessions :
    /\ Done(s)
    /\ hist[s].eval = "rejected"
    /\ hist[s].body.valid
    /\ "feedback" \notin hist[s].body.keys
    /\ response[s].status = 500

\* C5: after an exception in a transcription, the evaluation or the
\* recording, the session makes no further external call and writes no
\* further log line, and it is answered with the one status-500 response
\* that carries the exception's description.
ExceptionAborts ==
  \A s \in Sessions :
    hist[s].raised \in {"pitch", "qa", "eval", "record"}
      => /\ Len(hist[s].calls) = hist[s].calls_then
         /\ Written(s) = hist[s].lines_then
         /\ Done(s) =>
              response[s] =
                [status |-> 500, detail |-> hist[s].detail, body |-> NoResult]

\* C6: a document that does not parse yields the sentinel text, and if the
\* two transcriptions, the evaluation and the recording then succeed, the
\* session is answered with success and deck_text is the sentinel.
ParseFailureTolerated ==
  \A s \in Sessions :
    hist[s].parse = "failed"
      => /\ ~Done(s) => local[s].deck_text = Sentinel
         /\ (/\ Done(s)
             /\ hist[s].pitch = "ok" /\ hist[s].qa = "ok"
             /\ hist[s].eval = "ok" /\ hist[s].record = "ok")
              => /\ response[s].status = 200
                 /\ response[s].body.deck_text = Sentinel

\* C7: in every success response, pitch_scores and qa_scores are objects
\* with exactly the six rubric keys.
SixRubricKeys ==
  \A s \in Sessions :
    response[s].status = 200
      => \A sc \in {response[s].body.pitch_scores, response[s].body.qa_scores} :
           sc.t = "object" /\ DOMAIN sc.m = RubricKeys

\* C8: sessions whose line 70 ran in the same second have the same
\* temp_pitch name, and sessions whose line 71 ran in the same second have
\* the same temp_qa name.
SameSecondSameNames ==
  \A s, u \in Sessions :
    /\ (/\ pc[s] \notin {"idle", "done"} /\ pc[u] \notin {"idle", "done"}
        /\ local[s].at_pitch = local[u].at_pitch)
         => local[s].temp_pitch = local[u].temp_pitch
    /\ (/\ pc[s] \notin {"idle", "name_qa", "done"}
        /\ pc[u] \notin {"idle", "name_qa", "done"}
        /\ local[s].at_qa = local[u].at_qa)
         => local[s].temp_qa = local[u].temp_qa

\* C8 witness: a session was answered with success and its pitch transcript
\* was made from the audio another session uploaded.
TranscribedOthersAudio ==
  \E s \in Sessions :
    /\ response[s].status = 200
    /\ response[s].body.pitch_text.owner # s

KeyOrder ==
  <<"problem", "market", "solution", "biz_model", "traction", "impact">>

\* C9: a session answered with success has a log row of 8 columns: the
\* response's timestamp, the response's six pitch scores in rubric order
\* (0 for a missing key), and the first 50 characters of deck_text with
\* newlines turned into spaces, followed by "...".
RowMatchesResponse ==
  \A s \in Sessions :
    response[s].status = 200
      => \E i \in RowsBy(s) :
           LET f == log[i].fields
               b == response[s].body
               d == b.deck_text
               n == IF Len(d) < 50 THEN Len(d) ELSE 50
           IN /\ Len(f) = 8
              /\ f[1] = b.timestamp
              /\ \A j \in 1..6 :
                   f[j + 1] = IF KeyOrder[j] \in DOMAIN b.pitch_scores.m
                              THEN b.pitch_scores.m[KeyOrder[j]] ELSE 0
              /\ Len(f[8]) = n + 3
              /\ \A k \in 1..n : f[8][k] = IF d[k] = "\n" THEN " " ELSE d[k]
              /\ \A k \in 1..3 : f[8][n + k] = "."

\* C9 witness: a success whose pitch_scores lacks a key and whose deck text
\* is longer than the preview, with a newline inside it.
PartialScoresLongDeck ==
  \E s \in Sessions :
    /\ response[s].status = 200
    /\ "market" \notin DOMAIN response[s].body.pitch_scores.m
    /\ Len(response[s].body.deck_text) > 50
    /\ \E k \in 1..50 : response[s].body.deck_text[k] = "\n"

\* C10: a session's external calls are a prefix of pitch transcription,
\* Q&A transcription, chat completion; the second is made only after the
\* first succeeded, the third only after both succeeded, and none is made
\* after an exception.
CallsOnceInOrder ==
  \A s \in Sessions :
    LET c == hist[s].calls
    IN /\ Len(c) <= 3
       /\ \A i \in 1..Len(c) :
            c[i] = <<"transcribe_pitch", "transcribe_qa", "chat">>[i]
       /\ Len(c) >= 2 => hist[s].pitch = "ok"
       /\ Len(c) = 3 => hist[s].pitch = "ok" /\ hist[s].qa = "ok"
       /\ hist[s].raised # "none" => Len(c) = hist[s].calls_then

\* C10 witness: a session finished after its Q&A transcription failed.
QaFailureNotRetried ==
  \E s \in Sessions :
    /\ Done(s)
    /\ hist[s].qa = "raised"
    /\ hist[s].calls = <<"transcribe_pitch", "transcribe_qa">>

====
